---- MODULE Spec2Model ----
(***************************************************************************)
(* State-machine model of the blackthunnus simulation engine:              *)
(* pbt::Population (population.cpp) stepping pbt::Individual objects       *)
(* (individual.hpp / individual.cpp).                                      *)
(*                                                                         *)
(* Individuals live in an append-only arena `indiv`; an individual's       *)
(* identity (the C++ object address / id()) is its index in the arena and  *)
(* 0 stands for nullptr.  Random draws (survival, recruitment, father      *)
(* choice, sex, migration, sampling) are nondeterministic choices.         *)
(*                                                                         *)
(* Specifications:                                                         *)
(*   Spec      Population::run() followed by the export of the archive;    *)
(*   LiveSpec  the same with weak fairness, for termination;               *)
(*   ParamSpec the class variables of Individual: read_json / write_json   *)
(*             and the table lookups of has_survived, migrate, recruitment;*)
(*   TwinSpec  two Populations constructed alike and run one after the     *)
(*             other, their engine_ seeded as the constructor seeds it.    *)
(***************************************************************************)
EXTENDS Integers, Sequences, FiniteSets, TLC

\* ------------------------------------------------------------------ bounds
MaxInitialSize == 3   \* initial_size ranges over 1..MaxInitialSize
MaxBorn == 2          \* individuals reproduce() may create during one run
MaxRecruit == 2       \* largest recruitment draw
MaxDuration == 6      \* simulating_duration ranges over 4..MaxDuration
MaxRecording == 2     \* recording_duration: 1..MaxRecording, and duration + 1
MaxWork == 4          \* initial_size * number of simulated years
MaxReportYears == 1   \* the family report is requested after runs this long
NumLocations == 3     \* Individual::num_locations(), size of a migration matrix
MaxTable == 2         \* entries of a mortality table / matrices of a document

\* sample_rate values as <<numerator, denominator>>
Rates == {<<1, 2>>, <<3, 2>>}

\* ------------------------------------------------------- program constants
num_breeding_places == 2
FirstYear == 4
DefaultBirthYear == -4
max_age == 80
max_qage == 4 * (max_age + 1)
\* uint_fast32_t arithmetic is modular; the word is scaled to 16 bits here,
\* far above every year the model reaches.
UintModulus == 2^16

VARIABLES
    pc,                  \* position of the control flow in run() / export
    year_,               \* Population::year_
    indiv,               \* arena of Individual objects
    males_,              \* Population::males_   (sequence of identities)
    females_,            \* Population::females_
    year_samples_,       \* Population::year_samples_, sorted by capture year
    simulating_duration, \* run() arguments
    recording_duration,
    sample_rate,
    recording_start,     \* local of run()
    \* --- write_sample_family() locals
    nodes,               \* std::map id -> Individual*  (its key set)
    id_year,             \* std::unordered_map id -> capture year
    pending,             \* samples not yet traced: <<id, year>>, in map order
    cur,                 \* sample whose trace_back() is running, <<>> if none
    stack,               \* pending trace_back() calls
    records,             \* emitted family records
    \* --- observation of what the steps did
    phases,              \* log of the run: <<year, phase>> per phase executed
    draws,               \* reproduce(): <<mother, recruitment draw>> per draw
    checks,              \* survive(): individuals whose has_survived was true
    failed_any,          \* individuals that failed a survival check this year
    before_s0,           \* cohort members when survive(0) started
    initial_size,        \* constructor argument
    inserts,             \* trace_back(): number of insertions per individual
    \* --- Individual's class variables (the Parameter Set)
    RECRUITMENT_COEF_,
    NEGATIVE_BINOM_K_,
    NATURAL_MORTALITY_,
    FISHING_MORTALITY_,
    SURVIVAL_RATE_,
    WEIGHT_FOR_AGE_,
    MIGRATION_MATRICES_,
    MIGRATION_DISTRIBUTIONS,
    param_pc,            \* "unset", "loaded", "reloaded" or "crashed"
    doc,                 \* the document read_json is given
    written,             \* the documents write_json has produced
    saved,               \* the class variables when the document was written
    call,                \* the last call of an Individual member and its outcome
    \* --- the random bit generator, and a second Population for comparison
    engine_,             \* the state Population::engine_ was constructed with
    run_no,              \* 0: one Population; 1, 2: first / second of two
    trail,               \* states after the random steps of the first run
    first                \* what the first run produced

vars == <<pc, year_, indiv, males_, females_, year_samples_,
          simulating_duration, recording_duration, sample_rate,
          recording_start, nodes, id_year, pending, cur, stack, records,
          phases, draws, checks, failed_any,
          before_s0, initial_size, inserts,
          RECRUITMENT_COEF_, NEGATIVE_BINOM_K_, NATURAL_MORTALITY_,
          FISHING_MORTALITY_, SURVIVAL_RATE_, WEIGHT_FOR_AGE_,
          MIGRATION_MATRICES_, MIGRATION_DISTRIBUTIONS,
          param_pc, doc, written, saved, call,
          engine_, run_no, trail, first>>

popVars == <<indiv, males_, females_, year_samples_, initial_size>>
argVars == <<simulating_duration, recording_duration, sample_rate,
             recording_start>>
exportVars == <<nodes, id_year, pending, cur, stack, records, inserts>>
surviveObs == <<checks, failed_any, before_s0>>
optionVars == <<RECRUITMENT_COEF_, NEGATIVE_BINOM_K_>>
jsonVars == <<NATURAL_MORTALITY_, FISHING_MORTALITY_, WEIGHT_FOR_AGE_,
              MIGRATION_MATRICES_>>
dependentVars == <<SURVIVAL_RATE_, MIGRATION_DISTRIBUTIONS>>
paramVars == <<optionVars, jsonVars, dependentVars, param_pc, doc, written,
               saved, call>>
runVars == <<pc, year_, argVars, exportVars, phases, draws, surviveObs>>
twinVars == <<engine_, run_no, trail, first>>

\* ----------------------------------------------------------------- helpers
Range(s) == {s[i] : i \in 1..Len(s)}

Min(a, b) == IF a < b THEN a ELSE b

RECURSIVE Concat(_)
Concat(ss) == IF ss = <<>> THEN <<>> ELSE Head(ss) \o Concat(Tail(ss))

Locations == 0..(NumLocations - 1)

\* ------------------------------------------------------------- Individual
\* a constructor that leaves location_ at its default
Individual_DefaultLocation(arena, father, mother, year, is_male) ==
    [father |-> father, mother |-> mother, birth_year |-> year,
     location |-> 0, is_male |-> is_male]

\* a constructor that copies the mother's birth year along with her location
Individual_MotherYear(arena, father, mother, year, is_male) ==
    [father |-> father, mother |-> mother,
     birth_year |-> IF mother # 0 THEN arena[mother].birth_year ELSE year,
     location |-> IF mother # 0 THEN arena[mother].location ELSE 0,
     is_male |-> is_male]

\* Individual(father, mother, year, is_male); location copied from mother
Individual(arena, father, mother, year, is_male) ==
    [father |-> father, mother |-> mother, birth_year |-> year,
     location |-> IF mother # 0 THEN arena[mother].location ELSE 0,
     is_male |-> is_male]

\* the parentless individual made by std::make_shared<Individual>()
RootIndividual(is_male) ==
    [father |-> 0, mother |-> 0, birth_year |-> DefaultBirthYear,
     location |-> 0, is_male |-> is_male]

is_in_breeding_place(p) == indiv[p].location < num_breeding_places

\* ------------------------------------------------------------- Population
\* Population::Population(initial_size)
PopulationInit(size, root_is_male) ==
    LET half == size \div 2
        rest == size - half
        root == <<RootIndividual(root_is_male)>>
        arena == root \o [i \in 1..size |->
                            Individual(root, 1, 1, 0, i <= half)]
    IN  /\ indiv = arena
        /\ males_ = [i \in 1..half |-> 1 + i]
        /\ females_ = [i \in 1..rest |-> 1 + half + i]
        /\ year_samples_ = <<>>
        /\ initial_size = size

\* the durations run() is called with, fewer years for a larger population
Durations(size) == {d \in FirstYear..MaxDuration :
                       size * (d - FirstYear) <= MaxWork}

\* the recording durations run() is called with, one of them above d
Recordings(d) == (1..MaxRecording) \cup {d + 1}

\* wtl::random_device_64{}(): the values the constructor can seed engine_ with
random_device == {0, 1}

\* what the random steps of a run decide
Snapshot == <<pc, indiv, males_, females_, year_samples_>>

\* The engine is deterministic: a run takes the draws its initial engine
\* state fixes.  A single run may take any draws.  When two Populations are
\* compared, the first run's states are kept, and a second run whose engine
\* was constructed with the same state repeats them step by step.
Replay ==
    /\ (run_no = 2 /\ trail # <<>>) => (Snapshot' = Head(trail))
    /\ trail' = IF run_no = 1 THEN Append(trail, Snapshot')
                ELSE IF trail # <<>> THEN Tail(trail)
                ELSE trail
    /\ UNCHANGED <<engine_, run_no, first>>

\* one Population only; which state the random device gave engine_ does
\* not matter then, one value stands for all
SingleRun ==
    /\ engine_ = CHOOSE e \in random_device : TRUE
    /\ run_no = 0
    /\ trail = <<>>
    /\ first = <<>>

\* an overdispersion value: a finite number or infinity
Finite(v) == [inf |-> FALSE, v |-> v]

Infinity == [inf |-> TRUE, v |-> 0]

\* no call of an Individual member has been observed
NoCall == [op |-> "none"]

\* The class variables as the steps of Population see them.  The built-in
\* document that set_default_values() reads is not part of the sources: its
\* tables are left out here, the steps draw survival freely and migrate
\* along MigrationSupport.  The tables are modelled from ParamInit on.
DefaultParams ==
    /\ RECRUITMENT_COEF_ = 1
    /\ NEGATIVE_BINOM_K_ = Infinity
    /\ NATURAL_MORTALITY_ = <<>>
    /\ FISHING_MORTALITY_ = <<>>
    /\ SURVIVAL_RATE_ = <<>>
    /\ WEIGHT_FOR_AGE_ = <<>>
    /\ MIGRATION_MATRICES_ = <<>>
    /\ MIGRATION_DISTRIBUTIONS = <<>>
    /\ param_pc = "default"
    /\ doc = <<>>
    /\ written = <<>>
    /\ saved = <<>>
    /\ call = NoCall

\* the state after construction, and the arguments run() will be called
\* with; the sex of the parentless root founder is not initialised
Init ==
    /\ \E n \in 1..MaxInitialSize, s \in BOOLEAN :
          /\ PopulationInit(n, s)
          /\ simulating_duration \in Durations(n)
    /\ recording_duration \in Recordings(simulating_duration)
    /\ sample_rate \in Rates
    /\ pc = "constructed"
    /\ year_ = 0
    /\ recording_start = 0
    /\ nodes = {}
    /\ id_year = {}
    /\ pending = <<>>
    /\ cur = <<>>
    /\ stack = <<>>
    /\ records = <<>>
    /\ phases = <<>>
    /\ draws = <<>>
    /\ checks = {}
    /\ failed_any = {}
    /\ before_s0 = {}
    /\ inserts = <<>>
    /\ DefaultParams
    /\ SingleRun

\* unsigned subtraction simulating_duration - recording_duration
USub(a, b) == (a - b) % UintModulus

\* loop condition of run(): year_ < simulating_duration
LoopCond(y, duration) == y < duration

\* `if (year_ >= recording_start)` of run()
InRecording(y, start) == y >= start

\* where run() goes after the loop increment / at loop entry
LoopEntry(y, duration) == IF LoopCond(y, duration) THEN "reproduce" ELSE "done"

\* where run() goes after survive(3)
AfterSurvive(y, start) == IF InRecording(y, start) THEN "sample" ELSE "migrate"

\* run(): evaluation of recording_start and loop initialisation
RunBegin ==
    /\ UNCHANGED <<paramVars, twinVars>>
    /\ pc = "constructed"
    /\ recording_start' = USub(simulating_duration, recording_duration)
    /\ year_' = FirstYear
    /\ pc' = LoopEntry(FirstYear, simulating_duration)
    /\ UNCHANGED <<popVars, simulating_duration, recording_duration,
                   sample_rate, exportVars, phases, draws, surviveObs>>

\* ---------------------------------------------------------- reproduce()
\* males_located[loc]: the males at each location, in cohort order
males_located(loc) == SelectSeq(males_, LAMBDA p : indiv[p].location = loc)

\* a loop that pushes each boy into males_ as soon as he is constructed, so
\* that he is a potential father for the mothers that follow
RECURSIVE ReproduceFrom_BoysJoin(_, _, _)
ReproduceFrom_BoysJoin(j, born, dr) ==
    IF j > Len(females_) THEN {<<born, dr>>}
    ELSE LET mother == females_[j]
             boys == {Len(indiv) + i : i \in {x \in 1..Len(born) :
                         /\ born[x].is_male
                         /\ born[x].location = indiv[mother].location}}
             potential_fathers == males_located(indiv[mother].location)
             room == MaxBorn - (Len(indiv) - 1 - initial_size) - Len(born)
         IN  IF ~is_in_breeding_place(mother)
             THEN ReproduceFrom_BoysJoin(j + 1, born, dr)
             ELSE IF potential_fathers = <<>> /\ boys = {}
             THEN ReproduceFrom_BoysJoin(j + 1, born, dr)
             ELSE UNION {
                 ReproduceFrom_BoysJoin(j + 1,
                     born \o [i \in 1..num_juveniles |->
                                Individual(indiv, father, mother, year_, coin[i])],
                     Append(dr, <<mother, num_juveniles>>)) :
                 <<num_juveniles, father, coin>> \in
                     UNION {{<<n, f, c>> : f \in Range(potential_fathers) \cup boys,
                                           c \in [1..n -> BOOLEAN]} :
                            n \in 0..Min(MaxRecruit, room)}}

\* The loop over females_ from position j on.  born: the Individuals
\* constructed so far (is_male = pushed to boys); dr: the recruitment draws.
\* Yields every <<born, dr>> the random draws can produce; the recruitment
\* draw is capped so that a run creates at most MaxBorn individuals.
RECURSIVE ReproduceFrom(_, _, _)
ReproduceFrom(j, born, dr) ==
    IF j > Len(females_) THEN {<<born, dr>>}
    ELSE LET mother == females_[j]
             potential_fathers == males_located(indiv[mother].location)
             room == MaxBorn - (Len(indiv) - 1 - initial_size) - Len(born)
         IN  IF ~is_in_breeding_place(mother) THEN ReproduceFrom(j + 1, born, dr)
             ELSE IF potential_fathers = <<>> THEN ReproduceFrom(j + 1, born, dr)
             ELSE UNION {
                 ReproduceFrom(j + 1,
                     born \o [i \in 1..num_juveniles |->
                                Individual(indiv, father, mother, year_, coin[i])],
                     Append(dr, <<mother, num_juveniles>>)) :
                 <<num_juveniles, father, coin>> \in
                     UNION {{<<n, f, c>> : f \in Range(potential_fathers),
                                           c \in [1..n -> BOOLEAN]} :
                            n \in 0..Min(MaxRecruit, room)}}

\* identities (arena positions) of the newborns of one sex, in birth order
BornIds(born, male) ==
    LET idx == SelectSeq([i \in 1..Len(born) |-> i],
                         LAMBDA i : born[i].is_male = male)
    IN  [k \in 1..Len(idx) |-> Len(indiv) + idx[k]]

\* a reproduce() that copies the boys into both cohorts and drops the girls
ReproduceResult_GirlsLost(out) ==
    /\ indiv' = indiv \o out[1]
    /\ males_' = males_ \o BornIds(out[1], TRUE)
    /\ females_' = females_ \o BornIds(out[1], TRUE)
    /\ draws' = out[2]

ReproduceResult(out) ==
    /\ indiv' = indiv \o out[1]
    /\ males_' = males_ \o BornIds(out[1], TRUE)
    /\ females_' = females_ \o BornIds(out[1], FALSE)
    /\ draws' = out[2]

Reproduce ==
    /\ UNCHANGED paramVars
    /\ pc = "reproduce"
    /\ \E out \in ReproduceFrom(1, <<>>, <<>>) : ReproduceResult(out)
    /\ pc' = "survive0"
    /\ phases' = Append(phases, <<year_, "reproduce">>)
    /\ checks' = {}
    /\ failed_any' = {}
    /\ before_s0' = {}
    /\ UNCHANGED <<year_, year_samples_, initial_size, argVars, exportVars>>
    /\ Replay

\* ------------------------------------------------------------ survive()
Quarter == CASE pc = "survive0" -> 0
             [] pc = "survive1" -> 1
             [] pc = "survive2" -> 2
             [] pc = "survive3" -> 3
             [] OTHER -> -1

\* age in quarters used by Individual::has_survived
qage(p, year, quarter) == 4 * (year - indiv[p].birth_year) + quarter

\* a copy_if that prepends instead of appending (order reversed)
RECURSIVE copy_if_Reversed(_, _)
copy_if_Reversed(v, ok) ==
    IF v = <<>> THEN <<>>
    ELSE IF Head(v) \in ok THEN copy_if_Reversed(Tail(v), ok) \o <<Head(v)>>
    ELSE copy_if_Reversed(Tail(v), ok)

\* std::copy_if(v.begin(), v.end(), back_inserter(survivors), pred)
RECURSIVE copy_if(_, _)
copy_if(v, ok) ==
    IF v = <<>> THEN <<>>
    ELSE IF Head(v) \in ok THEN <<Head(v)>> \o copy_if(Tail(v), ok)
    ELSE copy_if(Tail(v), ok)

\* a run() that calls survive(3) right after survive(1)
NextAfterSurvive_SkipQuarter(quarter) ==
    CASE quarter = 0 -> "survive1"
      [] quarter = 1 -> "survive3"
      [] quarter = 2 -> "survive3"
      [] OTHER -> AfterSurvive(year_, recording_start)

NextAfterSurvive(quarter) ==
    CASE quarter = 0 -> "survive1"
      [] quarter = 1 -> "survive2"
      [] quarter = 2 -> "survive3"
      [] OTHER -> AfterSurvive(year_, recording_start)

Survive ==
    /\ UNCHANGED paramVars
    /\ pc \in {"survive0", "survive1", "survive2", "survive3"}
    /\ \E ok \in SUBSET (Range(males_) \cup Range(females_)) :
          /\ males_' = copy_if(males_, ok)
          /\ females_' = copy_if(females_, ok)
          /\ checks' = ok
          /\ failed_any' = failed_any \cup
                             ((Range(males_) \cup Range(females_)) \ ok)
    /\ before_s0' = IF Quarter = 0 THEN Range(males_) \cup Range(females_)
                    ELSE before_s0
    /\ phases' = Append(phases, <<year_, pc>>)
    /\ pc' = NextAfterSurvive(Quarter)
    /\ draws' = <<>>
    /\ UNCHANGED <<year_, indiv, year_samples_, initial_size, argVars,
                   exportVars>>
    /\ Replay

\* ------------------------------------------------------------- migrate()
\* MIGRATION_MATRICES_[age][from]: the destinations of non-zero weight.
\* The matrices are input data; here age 0 stays and older ages may move to
\* any location.
MigrationSupport(age, from) == IF age = 0 THEN {from} ELSE Locations

\* Individual::migrate: the locations the discrete distribution can return
migrate(p, year) ==
    MigrationSupport(year - indiv[p].birth_year, indiv[p].location)

\* a migrate that walks every Individual ever made, not only the cohorts
Relocate_WholeArena(dest) ==
    [p \in 1..Len(indiv) |->
        IF p \in DOMAIN dest
        THEN [indiv[p] EXCEPT !.location = dest[p]]
        ELSE [indiv[p] EXCEPT !.location = (@ + 1) % NumLocations]]

\* a migrate that puts a fresh Individual of the current year at the
\* destination instead of assigning location_
Relocate_Reborn(dest) ==
    [p \in 1..Len(indiv) |->
        IF p \in DOMAIN dest
        THEN [indiv[p] EXCEPT !.location = dest[p], !.birth_year = year_]
        ELSE indiv[p]]

\* the assignment `location_ = ...` for every member of the cohorts
Relocate(dest) ==
    [p \in 1..Len(indiv) |->
        IF p \in DOMAIN dest
        THEN [indiv[p] EXCEPT !.location = dest[p]]
        ELSE indiv[p]]

\* Individual::migrate for every member of males_ and females_, then ++year_
Migrate ==
    /\ UNCHANGED paramVars
    /\ pc = "migrate"
    /\ \E dest \in [Range(males_) \cup Range(females_) -> Locations] :
          /\ \A p \in DOMAIN dest : dest[p] \in migrate(p, year_)
          /\ indiv' = Relocate(dest)
    /\ year_' = year_ + 1
    /\ pc' = LoopEntry(year_ + 1, simulating_duration)
    /\ phases' = Append(phases, <<year_, "migrate">>)
    /\ checks' = {}
    /\ failed_any' = {}
    /\ before_s0' = {}
    /\ UNCHANGED <<males_, females_, year_samples_, initial_size, argVars,
                   exportVars, draws>>
    /\ Replay

\* -------------------------------------------------------------- sample()
\* std::round(num / den) for a non-negative quotient (halves round up)
Round(num, den) == (2 * num + den) \div (2 * den)

\* static_cast<size_t>(std::round(rate * n))
n_samples(rate, n) == Round(rate[1] * n, rate[2])

\* `const size_t n_juvenile_samples = 2u * n_adult_samples`
n_juvenile_samples(n_adult_samples) == 2 * n_adult_samples

\* wtl::sample(n, k, engine): k distinct positions out of 0..n-1.  The
\* library is called without a check of k <= n; beyond its contract the
\* call may not return (ok = FALSE: exception, abort or endless loop) or may
\* return any set of positions.
wtl_sample(n, k) ==
    IF k <= n
    THEN {[ok |-> TRUE, chosen |-> S] :
             S \in {T \in SUBSET (0..(n - 1)) : Cardinality(T) = k}}
    ELSE {[ok |-> FALSE, chosen |-> {}]} \cup
         {[ok |-> TRUE, chosen |-> S] : S \in SUBSET (0..(n - 1))}

Positions(v) == [i \in 1..Len(v) |-> i]

\* adults[loc] / juveniles[loc] of sample(): positions in v, ascending
adults(v, loc) ==
    SelectSeq(Positions(v), LAMBDA i : /\ is_in_breeding_place(v[i])
                                       /\ indiv[v[i]].location = loc
                                       /\ indiv[v[i]].birth_year # year_)

juveniles(v, loc) ==
    SelectSeq(Positions(v), LAMBDA i : /\ is_in_breeding_place(v[i])
                                       /\ indiv[v[i]].location = loc
                                       /\ indiv[v[i]].birth_year = year_)

\* the calls sort(adults[loc], ..), sort(juveniles[loc], ..) in loop order
Strata(v, rate) ==
    Concat([l \in 1..num_breeding_places |->
        LET loc == l - 1
            n_adult_samples == n_samples(rate, Len(adults(v, loc)))
        IN  << [indices |-> adults(v, loc), k |-> n_adult_samples],
               [indices |-> juveniles(v, loc),
                k |-> n_juvenile_samples(n_adult_samples)] >>])

\* a `sort` that leaves the chosen members among the survivors as well
sort_survivors_KeepChosen(v, indices, chosen) ==
    [j \in 1..Len(indices) |-> v[indices[j]]]

\* the lambda `sort`: members at chosen positions go to samples, others to
\* survivors, both in index order
sort_survivors(v, indices, chosen) ==
    LET keep == SelectSeq(Positions(indices), LAMBDA i : (i - 1) \notin chosen)
    IN  [j \in 1..Len(keep) |-> v[indices[keep[j]]]]

sort_samples(v, indices, chosen) ==
    LET take == SelectSeq(Positions(indices), LAMBDA i : (i - 1) \in chosen)
    IN  [j \in 1..Len(take) |-> v[indices[take[j]]]]

RECURSIVE SortFrom(_, _, _, _, _)
SortFrom(v, strata, i, survivors, samples) ==
    IF i > Len(strata)
    THEN {[ok |-> TRUE, survivors |-> survivors, samples |-> samples]}
    ELSE UNION {
        IF ~c.ok THEN {[ok |-> FALSE, survivors |-> <<>>, samples |-> <<>>]}
        ELSE SortFrom(v, strata, i + 1,
                 survivors \o sort_survivors(v, strata[i].indices, c.chosen),
                 samples \o sort_samples(v, strata[i].indices, c.chosen)) :
        c \in wtl_sample(Len(strata[i].indices), strata[i].k)}

\* an `impl` that forgets to keep the individuals outside breeding places
SampleImpl_DropNonBreeding(v, rate) ==
    SortFrom(v, Strata(v, rate), 1, <<>>, <<>>)

\* the lambda `impl` of sample(): every result it can produce for cohort v
SampleImpl(v, rate) ==
    SortFrom(v, Strata(v, rate), 1,
             SelectSeq(v, LAMBDA p : ~is_in_breeding_place(p)), <<>>)

\* a sample() that assigns a fresh map holding only the current year
MapAppend_Overwrite(m, year, s) == <<[year |-> year, samples |-> s]>>

\* year_samples_[year] followed by appending s to that entry
MapAppend(m, year, s) ==
    IF \E i \in 1..Len(m) : m[i].year = year
    THEN [i \in 1..Len(m) |->
            IF m[i].year = year
            THEN [m[i] EXCEPT !.samples = @ \o s] ELSE m[i]]
    ELSE LET lower == SelectSeq(m, LAMBDA e : e.year < year)
             upper == SelectSeq(m, LAMBDA e : e.year > year)
         IN  lower \o <<[year |-> year, samples |-> s]>> \o upper

Sample ==
    /\ UNCHANGED paramVars
    /\ pc = "sample"
    /\ \E m \in SampleImpl(males_, sample_rate) :
          IF ~m.ok
          THEN /\ pc' = "failed"
               /\ UNCHANGED <<males_, females_, year_samples_>>
          ELSE \E f \in SampleImpl(females_, sample_rate) :
                  IF ~f.ok
                  THEN /\ pc' = "failed"
                       /\ males_' = m.survivors
                       /\ UNCHANGED <<females_, year_samples_>>
                  ELSE /\ pc' = "migrate"
                       /\ males_' = m.survivors
                       /\ females_' = f.survivors
                       /\ year_samples_' =
                            MapAppend(year_samples_, year_, m.samples \o f.samples)
    /\ phases' = Append(phases, <<year_, "sample">>)
    /\ UNCHANGED <<year_, indiv, initial_size, argVars, exportVars, draws,
                   surviveObs>>
    /\ Replay

\* ------------------------------------------------- write_sample_family()
\* the samples of year_samples_ in iteration order, each with its key
Flatten(m) ==
    Concat([i \in 1..Len(m) |->
              [j \in 1..Len(m[i].samples) |-> <<m[i].samples[j], m[i].year>>]])

\* id_year.emplace(id, year): no effect when the key is present
Emplace(map, id, year) ==
    IF \E e \in map : e[1] = id THEN map ELSE map \cup {<<id, year>>}

\* entry: the locals id_year and nodes start empty
ExportBegin ==
    /\ UNCHANGED <<paramVars, twinVars>>
    /\ pc = "done"
    /\ simulating_duration - FirstYear <= MaxReportYears
    /\ pc' = "tracing"
    /\ nodes' = {}
    /\ id_year' = {}
    /\ pending' = Flatten(year_samples_)
    /\ cur' = <<>>
    /\ stack' = <<>>
    /\ inserts' = [i \in 1..Len(indiv) |-> 0]
    /\ UNCHANGED <<year_, popVars, argVars, records, phases, draws,
                   surviveObs>>

\* a loop that declares `nodes` inside its body: every sample starts afresh
NodesForNext_Fresh(n) == {}

\* nodes at the start of the next sample's trace_back call
NodesForNext(n) == n

\* loop head: p->trace_back(&nodes) is called for the next sample
TraceNext ==
    /\ UNCHANGED <<paramVars, twinVars>>
    /\ pc = "tracing"
    /\ stack = <<>>
    /\ cur = <<>>
    /\ pending # <<>>
    /\ cur' = Head(pending)
    /\ pending' = Tail(pending)
    /\ stack' = <<Head(pending)[1]>>
    /\ nodes' = NodesForNext(nodes)
    /\ UNCHANGED <<pc, year_, popVars, argVars, id_year, records, inserts,
                   phases, draws, surviveObs>>

\* the calls one trace_back(x) makes after it inserted x: father, then mother
TraceCalls(x) ==
    IF indiv[x].father # 0 THEN <<indiv[x].father, indiv[x].mother>> ELSE <<>>

\* one call of Individual::trace_back: insert, recurse if newly inserted
TraceBack ==
    /\ UNCHANGED <<paramVars, twinVars>>
    /\ pc = "tracing"
    /\ stack # <<>>
    /\ LET x == Head(stack)
       IN  IF x \notin nodes
           THEN /\ nodes' = nodes \cup {x}
                /\ inserts' = [inserts EXCEPT ![x] = @ + 1]
                /\ stack' = TraceCalls(x) \o Tail(stack)
           ELSE /\ stack' = Tail(stack)
                /\ UNCHANGED <<nodes, inserts>>
    /\ UNCHANGED <<pc, year_, popVars, argVars, id_year, pending, cur,
                   records, phases, draws, surviveObs>>

\* trace_back returned: id_year.emplace(p->id(), ys.first)
TraceReturn ==
    /\ UNCHANGED <<paramVars, twinVars>>
    /\ pc = "tracing"
    /\ stack = <<>>
    /\ cur # <<>>
    /\ id_year' = Emplace(id_year, cur[1], cur[2])
    /\ cur' = <<>>
    /\ UNCHANGED <<pc, year_, popVars, argVars, nodes, pending, stack,
                   records, inserts, phases, draws, surviveObs>>

\* ascending enumeration of a set of identities (std::map iteration order)
RECURSIVE Ascending(_)
Ascending(S) ==
    IF S = {} THEN <<>>
    ELSE LET lo == CHOOSE x \in S : \A y \in S : x <= y
         IN  <<lo>> \o Ascending(S \ {lo})

\* a lookup that ignores the key and prints whatever id_year holds first
CaptureYear_AnyKey(map, id) ==
    IF map # {}
    THEN <<(CHOOSE e \in map : \A f \in map : e[1] <= f[1])[2]>>
    ELSE <<>>

\* the capture-year column: empty unless id_year has the identity
CaptureYear(map, id) ==
    IF \E e \in map : e[1] = id
    THEN <<(CHOOSE e \in map : e[1] = id)[2]>>
    ELSE <<>>

\* one output line: the Individual's columns, then the capture year
Record(id, map) ==
    [id |-> id, father |-> indiv[id].father, mother |-> indiv[id].mother,
     birth_year |-> indiv[id].birth_year, location |-> indiv[id].location,
     capture_year |-> CaptureYear(map, id)]

\* second loop: one line per entry of nodes
WriteRecords ==
    /\ UNCHANGED <<paramVars, twinVars>>
    /\ pc = "tracing"
    /\ stack = <<>>
    /\ cur = <<>>
    /\ pending = <<>>
    /\ records' = LET ids == Ascending(nodes)
                  IN  [i \in 1..Len(ids) |-> Record(ids[i], id_year)]
    /\ pc' = "exported"
    /\ UNCHANGED <<year_, popVars, argVars, nodes, id_year, pending, cur,
                   stack, inserts, phases, draws, surviveObs>>

\* ----------------------------------- Individual's class variables and JSON
\* Doubles are modelled by integers: a mortality n stands for itself, an
\* entry e of SURVIVAL_RATE_ stands for exp(-e), a row of a migration matrix
\* holds weights in units of 1 / RowTotal.
RowTotal == 2

MortalityValues == {-1, 1}

FishingValues == {2}

WeightValues == {0, 2}

RecruitmentCoefs == {1, 2}

OverdispersionValues == {Finite(-1), Finite(1), Infinity}

\* non-empty sequences over S of length up to n
Tables(S, n) == UNION {[1..k -> S] : k \in 1..n}

\* everybody stays
StayMatrix(n) ==
    [i \in 1..n |-> [j \in 1..n |-> IF j = i THEN RowTotal ELSE 0]]

\* stay or move to the next location, each with probability 1/2
SpreadMatrix(n) ==
    [i \in 1..n |-> [j \in 1..n |-> IF j = i \/ j = (i % n) + 1 THEN 1 ELSE 0]]

\* rows that sum to 1/2
LeakyMatrix(n) ==
    [i \in 1..n |-> [j \in 1..n |-> IF j = i THEN 1 ELSE 0]]

\* the matrices of the documents: two row-stochastic ones of dimension
\* num_locations, one whose rows do not sum to 1, one of another dimension
MatrixValues ==
    {StayMatrix(NumLocations), SpreadMatrix(NumLocations),
     LeakyMatrix(NumLocations), StayMatrix(NumLocations - 1)}

\* weight-at-age tables that cover the ages 0..a, four entries per year
WeightTables ==
    {[i \in 1..(4 * a + 1) |-> IF i <= 4 THEN 0 ELSE 2] : a \in 0..1}

\* a small valid document
BaseDocument ==
    [natural_mortality |-> <<1>>,
     fishing_mortality |-> <<2>>,
     weight_for_age |-> [i \in 1..5 |-> IF i <= 4 THEN 0 ELSE 2],
     migration_matrices |-> <<StayMatrix(NumLocations)>>]

\* the parameter documents read_json is given: the base document with
\* other mortality tables, with other matrices or with another weight table
Documents ==
    {[BaseDocument EXCEPT !.natural_mortality = n, !.fishing_mortality = f] :
        n \in Tables(MortalityValues, MaxTable),
        f \in Tables(FishingValues, MaxTable)}
    \cup {[BaseDocument EXCEPT !.migration_matrices = m] :
             m \in Tables(MatrixValues, MaxTable)}
    \cup {[BaseDocument EXCEPT !.weight_for_age = w] : w \in WeightTables}

\* template elongate(v, n): append the last element until size n
elongate(v, n) ==
    IF Len(v) >= n THEN v
    ELSE [i \in 1..n |-> IF i <= Len(v) THEN v[i] ELSE v[Len(v)]]

\* std::transform over NATURAL_MORTALITY_ and FISHING_MORTALITY_ of
\* set_dependent_static: exp(-n - f) per entry of the first range.  The
\* second range is read up to the length of the first: entries beyond its
\* end are undefined reads and may yield any value.
transform(nat, fis) ==
    {[i \in 1..Len(nat) |->
         nat[i] + (IF i <= Len(fis) THEN fis[i] ELSE garbage[i])] :
     garbage \in [1..Len(nat) -> MortalityValues \cup FishingValues]}

\* Individual::set_dependent_static: the values of MIGRATION_DISTRIBUTIONS
\* and SURVIVAL_RATE_ it can leave; the out-of-range read may also end the
\* process
set_dependent_static(nat, fis, matrices) ==
    {[crashed |-> FALSE,
      distributions |-> elongate(matrices, max_age),
      survival |-> elongate(t, max_qage)] : t \in transform(nat, fis)}
    \cup (IF Len(fis) < Len(nat)
          THEN {[crashed |-> TRUE,
                 distributions |-> elongate(matrices, max_age),
                 survival |-> SURVIVAL_RATE_]}
          ELSE {})

\* Individual::read_json for a parsed document d
read_json(d) ==
    /\ NATURAL_MORTALITY_' = d.natural_mortality
    /\ FISHING_MORTALITY_' = d.fishing_mortality
    /\ WEIGHT_FOR_AGE_' = d.weight_for_age
    /\ MIGRATION_MATRICES_' = d.migration_matrices
    /\ \E dep \in set_dependent_static(d.natural_mortality,
                                       d.fishing_mortality,
                                       d.migration_matrices) :
          /\ SURVIVAL_RATE_' = dep.survival
          /\ MIGRATION_DISTRIBUTIONS' = dep.distributions
          /\ param_pc' = IF dep.crashed THEN "crashed"
                         ELSE IF param_pc = "unset" THEN "loaded"
                         ELSE "reloaded"

\* a write_json that stores the fishing mortality under both mortality keys
write_json_FishingTwice ==
    [natural_mortality |-> FISHING_MORTALITY_,
     fishing_mortality |-> FISHING_MORTALITY_,
     weight_for_age |-> WEIGHT_FOR_AGE_,
     migration_matrices |-> MIGRATION_MATRICES_]

\* Individual::write_json: the document it writes
write_json ==
    [natural_mortality |-> NATURAL_MORTALITY_,
     fishing_mortality |-> FISHING_MORTALITY_,
     weight_for_age |-> WEIGHT_FOR_AGE_,
     migration_matrices |-> MIGRATION_MATRICES_]

\* all class variables of Individual
ClassVariables ==
    [RECRUITMENT_COEF_ |-> RECRUITMENT_COEF_,
     NEGATIVE_BINOM_K_ |-> NEGATIVE_BINOM_K_,
     NATURAL_MORTALITY_ |-> NATURAL_MORTALITY_,
     FISHING_MORTALITY_ |-> FISHING_MORTALITY_,
     SURVIVAL_RATE_ |-> SURVIVAL_RATE_,
     WEIGHT_FOR_AGE_ |-> WEIGHT_FOR_AGE_,
     MIGRATION_MATRICES_ |-> MIGRATION_MATRICES_,
     MIGRATION_DISTRIBUTIONS |-> MIGRATION_DISTRIBUTIONS]

\* the first read of a document
ReadJson ==
    /\ UNCHANGED twinVars
    /\ param_pc = "unset"
    /\ read_json(doc)
    /\ UNCHANGED <<popVars, runVars, optionVars, doc, written, saved, call>>

\* write_json on the installed Parameter Set, at most twice
WriteJson ==
    /\ UNCHANGED twinVars
    /\ param_pc \in {"loaded", "reloaded"}
    /\ call = NoCall
    /\ Len(written) < 2
    /\ Len(written) = 1 => param_pc = "reloaded"
    /\ written' = Append(written, write_json)
    /\ saved' = IF written = <<>> THEN <<ClassVariables>> ELSE saved
    /\ UNCHANGED <<popVars, runVars, optionVars, jsonVars, dependentVars,
                   param_pc, doc, call>>

\* read_json on the document written before.  The reader is this process
\* or another one, whose recruitment coefficient and overdispersion are
\* what its own command line made them (options_desc).
ReadBack ==
    /\ UNCHANGED twinVars
    /\ param_pc = "loaded"
    /\ Len(written) = 1
    /\ read_json(written[1])
    /\ RECRUITMENT_COEF_' \in RecruitmentCoefs
    /\ NEGATIVE_BINOM_K_' \in OverdispersionValues
    /\ UNCHANGED <<popVars, runVars, doc, written, saved, call>>

\* the years at which the members of an Individual are called
ProbeYears == {0, 1, 2, max_age - 1, max_age, max_age + 1}

\* the Individual the calls are made on: the founder of the population
Subject == 2

\* Individual::has_survived(year, quarter): it throws std::out_of_range or
\* compares a uniform draw u in [0, 1) with exp(-e)
has_survived(p, year, quarter) ==
    LET q == qage(p, year, quarter)
    IN  IF q < 0 \/ q >= Len(SURVIVAL_RATE_)
        THEN {[op |-> "has_survived", year |-> year, quarter |-> quarter,
               qage |-> q, returned |-> FALSE, rate |-> 0, result |-> FALSE]}
        ELSE {[op |-> "has_survived", year |-> year, quarter |-> quarter,
               qage |-> q, returned |-> TRUE, rate |-> SURVIVAL_RATE_[q + 1],
               result |-> b] :
              b \in IF SURVIVAL_RATE_[q + 1] > 0 THEN BOOLEAN ELSE {TRUE}}

HasSurvived ==
    /\ UNCHANGED twinVars
    /\ param_pc = "loaded"
    /\ written = <<>>
    /\ call = NoCall
    /\ \E year \in ProbeYears, quarter \in 0..3 :
          call' \in has_survived(Subject, year, quarter)
    /\ UNCHANGED <<popVars, runVars, optionVars, jsonVars, dependentVars,
                   param_pc, doc, written, saved>>

\* std::discrete_distribution(row)(engine): an index of positive weight
discrete_distribution(row) == {j - 1 : j \in {i \in 1..Len(row) : row[i] > 0}}

\* Individual::migrate(year): .at(age) throws std::out_of_range; [location_]
\* is unchecked, beyond the rows of the matrix anything may be returned
migrate_at(p, year) ==
    LET age == year - indiv[p].birth_year
        from == indiv[p].location
    IN  IF age < 0 \/ age >= Len(MIGRATION_DISTRIBUTIONS)
        THEN {[op |-> "migrate", year |-> year, from |-> from,
               returned |-> FALSE, to |-> from]}
        ELSE IF from >= Len(MIGRATION_DISTRIBUTIONS[age + 1])
        THEN {[op |-> "migrate", year |-> year, from |-> from,
               returned |-> b, to |-> l] : b \in BOOLEAN, l \in Locations}
        ELSE {[op |-> "migrate", year |-> year, from |-> from,
               returned |-> TRUE, to |-> l] :
              l \in discrete_distribution(MIGRATION_DISTRIBUTIONS[age + 1][from + 1])}

IndividualMigrate ==
    /\ UNCHANGED twinVars
    /\ param_pc = "loaded"
    /\ written = <<>>
    /\ call.op \in {"none", "migrate"}
    /\ \E year \in ProbeYears :
          \E o \in migrate_at(Subject, year) :
              /\ call' = o
              /\ indiv' = [indiv EXCEPT ![Subject].location =
                              IF o.returned THEN o.to ELSE @]
    /\ UNCHANGED <<males_, females_, year_samples_, initial_size, runVars,
                   optionVars, jsonVars, dependentVars, param_pc, doc,
                   written, saved>>

\* Individual::weight(year): WEIGHT_FOR_AGE_[4 * age], unchecked
weight(p, year) ==
    LET i == 4 * (year - indiv[p].birth_year)
    IN  IF i >= 0 /\ i < Len(WEIGHT_FOR_AGE_) THEN {WEIGHT_FOR_AGE_[i + 1]}
        ELSE WeightValues

\* the double k / (mean + k): a quotient num / den, an infinity or NaN
Quotient(k, mean) ==
    IF k.inf THEN [kind |-> "nan", num |-> 0, den |-> 1]
    ELSE IF mean + k.v # 0 THEN [kind |-> "num", num |-> k.v, den |-> mean + k.v]
    ELSE IF k.v = 0 THEN [kind |-> "nan", num |-> 0, den |-> 1]
    ELSE IF k.v > 0 THEN [kind |-> "posinf", num |-> 0, den |-> 1]
    ELSE [kind |-> "neginf", num |-> 0, den |-> 1]

\* the comparison prob < 1.0 of doubles
LessThanOne(x) ==
    CASE x.kind = "nan" -> FALSE
      [] x.kind = "posinf" -> FALSE
      [] x.kind = "neginf" -> TRUE
      [] OTHER -> \/ x.den > 0 /\ x.num < x.den
                  \/ x.den < 0 /\ x.num > x.den

\* the negative binomial distribution is defined for k > 0 and 0 < p <= 1
ValidNegativeBinomial(k, x) ==
    /\ ~k.inf /\ k.v > 0
    /\ x.kind = "num" /\ x.den > 0 /\ x.num > 0 /\ x.num <= x.den

\* Individual::recruitment(year): the distribution it draws from
recruitment(p, year) ==
    {LET mean == RECRUITMENT_COEF_ * w
         prob == Quotient(NEGATIVE_BINOM_K_, mean)
     IN  IF LessThanOne(prob)
         THEN [op |-> "recruitment", year |-> year, mean |-> mean,
               dist |-> "negative_binomial", k |-> NEGATIVE_BINOM_K_,
               prob |-> prob,
               returned |-> ValidNegativeBinomial(NEGATIVE_BINOM_K_, prob)]
         ELSE [op |-> "recruitment", year |-> year, mean |-> mean,
               dist |-> "poisson", k |-> NEGATIVE_BINOM_K_, prob |-> prob,
               returned |-> TRUE] :
     w \in weight(p, year)}

Recruitment ==
    /\ UNCHANGED twinVars
    /\ param_pc = "loaded"
    /\ written = <<>>
    /\ call = NoCall
    /\ \E year \in {0, 1} : call' \in recruitment(Subject, year)
    /\ UNCHANGED <<popVars, runVars, optionVars, jsonVars, dependentVars,
                   param_pc, doc, written, saved>>

\* a process that has constructed a population of one founder and is about
\* to read a parameter document; the command line has set the options
ParamInit ==
    /\ PopulationInit(1, FALSE)
    /\ simulating_duration = FirstYear
    /\ recording_duration = 1
    /\ sample_rate = <<1, 2>>
    /\ pc = "constructed"
    /\ year_ = 0
    /\ recording_start = 0
    /\ nodes = {}
    /\ id_year = {}
    /\ pending = <<>>
    /\ cur = <<>>
    /\ stack = <<>>
    /\ records = <<>>
    /\ phases = <<>>
    /\ draws = <<>>
    /\ checks = {}
    /\ failed_any = {}
    /\ before_s0 = {}
    /\ inserts = <<>>
    /\ doc \in Documents
    /\ RECRUITMENT_COEF_ \in RecruitmentCoefs
    /\ NEGATIVE_BINOM_K_ \in OverdispersionValues
    /\ doc = BaseDocument \/ (RECRUITMENT_COEF_ = 1 /\ NEGATIVE_BINOM_K_ = Infinity)
    /\ NATURAL_MORTALITY_ = <<>>
    /\ FISHING_MORTALITY_ = <<>>
    /\ SURVIVAL_RATE_ = <<>>
    /\ WEIGHT_FOR_AGE_ = <<>>
    /\ MIGRATION_MATRICES_ = <<>>
    /\ MIGRATION_DISTRIBUTIONS = <<>>
    /\ param_pc = "unset"
    /\ written = <<>>
    /\ saved = <<>>
    /\ call = NoCall
    /\ SingleRun

ParamNext ==
    \/ ReadJson
    \/ WriteJson
    \/ ReadBack
    \/ HasSurvived
    \/ IndividualMigrate
    \/ Recruitment

ParamSpec == ParamInit /\ [][ParamNext]_vars

\* ------------------------------------------------- two Populations compared
\* the archive as the sample report shows it: capture year, and per sample
\* its identity with parents, birth year and location
Described(m) ==
    [i \in 1..Len(m) |->
        [year |-> m[i].year,
         samples |-> [j \in 1..Len(m[i].samples) |->
                        <<m[i].samples[j], indiv[m[i].samples[j]]>>]]]

\* what a finished run has produced
Outcome ==
    [engine |-> engine_, archive |-> Described(year_samples_),
     males |-> Len(males_), females |-> Len(females_)]

\* Population::Population(initial_size) once more, with the same argument,
\* followed by run() with the same arguments: the new engine_ is seeded
\* from the random device again
Rerun ==
    /\ run_no = 1
    /\ pc = "done"
    /\ first' = <<Outcome>>
    /\ run_no' = 2
    /\ engine_' \in random_device
    /\ trail' = IF engine_' = engine_ THEN trail ELSE <<>>
    /\ indiv' = SubSeq(indiv, 1, 1) \o
                  [i \in 1..initial_size |->
                     Individual(SubSeq(indiv, 1, 1), 1, 1, 0,
                                i <= initial_size \div 2)]
    /\ males_' = [i \in 1..(initial_size \div 2) |-> 1 + i]
    /\ females_' = [i \in 1..(initial_size - initial_size \div 2) |->
                       1 + initial_size \div 2 + i]
    /\ year_samples_' = <<>>
    /\ pc' = "constructed"
    /\ year_' = 0
    /\ phases' = <<>>
    /\ draws' = <<>>
    /\ checks' = {}
    /\ failed_any' = {}
    /\ before_s0' = {}
    /\ UNCHANGED <<initial_size, argVars, exportVars, paramVars>>

\* two Populations of two founders, each run for one recorded year
TwinInit ==
    /\ PopulationInit(2, FALSE)
    /\ simulating_duration = FirstYear + 1
    /\ recording_duration = 1
    /\ sample_rate = <<1, 2>>
    /\ pc = "constructed"
    /\ year_ = 0
    /\ recording_start = 0
    /\ nodes = {}
    /\ id_year = {}
    /\ pending = <<>>
    /\ cur = <<>>
    /\ stack = <<>>
    /\ records = <<>>
    /\ phases = <<>>
    /\ draws = <<>>
    /\ checks = {}
    /\ failed_any = {}
    /\ before_s0 = {}
    /\ inserts = <<>>
    /\ DefaultParams
    /\ engine_ \in random_device
    /\ run_no = 1
    /\ trail = <<>>
    /\ first = <<>>

TwinNext ==
    \/ RunBegin
    \/ Reproduce
    \/ Survive
    \/ Sample
    \/ Migrate
    \/ Rerun

TwinSpec == TwinInit /\ [][TwinNext]_vars

\* ---------------------------------------------------------- specification
Next ==
    \/ RunBegin
    \/ Reproduce
    \/ Survive
    \/ Sample
    \/ Migrate
    \/ ExportBegin
    \/ TraceNext
    \/ TraceBack
    \/ TraceReturn
    \/ WriteRecords

Spec == Init /\ [][Next]_vars

\* one call scenario: the largest population, rate 1/2, last year recorded
LiveInit ==
    /\ Init
    /\ initial_size = MaxInitialSize
    /\ sample_rate = <<1, 2>>
    /\ recording_duration = 1

\* the program keeps taking steps until it has finished or failed
LiveSpec == LiveInit /\ [][Next]_vars /\ WF_vars(Next)

TypeOK ==
    /\ pc \in {"constructed", "reproduce", "survive0", "survive1", "survive2",
               "survive3", "sample", "migrate", "done", "failed", "tracing",
               "exported"}
    /\ Len(indiv) <= 1 + initial_size + MaxBorn
    /\ Range(males_) \cup Range(females_) \subseteq 1..Len(indiv)

\* ------------------------------------------------------------------ claims
IsPrefix(s, t) == Len(s) <= Len(t) /\ \A i \in 1..Len(s) : s[i] = t[i]

\* the phases logged for year y, in execution order
PhasesOf(y) ==
    LET es == SelectSeq(phases, LAMBDA e : e[1] = y)
    IN  [i \in 1..Len(es) |-> es[i][2]]

YearSequence(with_sample) ==
    <<"reproduce", "survive0", "survive1", "survive2", "survive3">>
    \o (IF with_sample THEN <<"sample">> ELSE <<>>) \o <<"migrate">>

YearsRun == {e[1] : e \in {x \in Range(phases) : x[2] = "migrate"}}

YearsSampled == {e[1] : e \in {x \in Range(phases) : x[2] = "sample"}}

YearsStarted == {e[1] : e \in Range(phases)}

\* C1: in every year run() executes, the phases are executed exactly once
\* each in the order reproduce, survive(0), survive(1), survive(2),
\* survive(3), sample (possibly absent), migrate; every phase of an earlier
\* year precedes every phase of a later year, and a year that has been left
\* has its complete sequence.
C1_PhaseOrder ==
    /\ \A i, j \in 1..Len(phases) : i < j => phases[i][1] <= phases[j][1]
    /\ \A y \in YearsStarted :
          /\ y <= year_
          /\ \E w \in BOOLEAN : IsPrefix(PhasesOf(y), YearSequence(w))
          /\ y < year_ => \E w \in BOOLEAN : PhasesOf(y) = YearSequence(w)
    /\ pc = "reproduce" => PhasesOf(year_) = <<>>
    /\ pc = "done" => year_ \notin YearsStarted

\* C1 witness: a finished run of two years, one with and one without sample
C1_Witness ==
    /\ pc = "done"
    /\ PhasesOf(FirstYear) = YearSequence(FALSE)
    /\ PhasesOf(FirstYear + 1) = YearSequence(TRUE)

\* C2 (as claimed): a finished run executed every year from the start value
\* through simulating_duration, and sampled exactly the years y with
\* duration - recording_duration < y <= duration.
C2_Claimed ==
    pc = "done" =>
        /\ YearsRun = FirstYear..simulating_duration
        /\ YearsSampled =
             {y \in YearsRun : /\ simulating_duration - recording_duration < y
                               /\ y <= simulating_duration}

\* the archive entry of a capture year (empty when the key is absent)
ArchiveOf(m, year) ==
    Concat([i \in 1..Len(m) |-> IF m[i].year = year THEN m[i].samples ELSE <<>>])

IsAdult(p) == indiv[p].birth_year < year_

IsJuvenile(p) == indiv[p].birth_year = year_

\* the members of cohort v in breeding location loc, by life stage
AdultsAt(v, loc) ==
    {p \in Range(v) : indiv[p].location = loc /\ IsAdult(p)}

JuvenilesAt(v, loc) ==
    {p \in Range(v) : indiv[p].location = loc /\ IsJuvenile(p)}

BreedingLocations == 0..(num_breeding_places - 1)

\* C3 for one cohort: before (v), after (w), archive entry before and after
PartitionOK(v, w, old, new) ==
    /\ \A p \in Range(v) : (p \in Range(w)) # (p \in Range(new) \ Range(old))
    /\ Range(w) \subseteq Range(v)
    /\ \A p \in Range(v) : ~is_in_breeding_place(p) => p \in Range(w)

\* C3: a sample() call that returns partitions each cohort: every member is
\* afterwards either in the same cohort or in the archive entry of the
\* current year, never both, never neither; members outside breeding places
\* stay, and whoever was added to the archive was in a breeding place.
C3_SamplePartition ==
    [][(pc = "sample" /\ pc' = "migrate") =>
        LET old == ArchiveOf(year_samples_, year_)
            new == ArchiveOf(year_samples_', year_)
        IN  /\ PartitionOK(males_, males_', old, new)
            /\ PartitionOK(females_, females_', old, new)
            /\ Range(males_') \cap Range(females_') = {}
            /\ Len(males_') + Len(females_') + Len(new)
                 = Len(males_) + Len(females_) + Len(old)
            /\ IsPrefix(old, new)
            /\ Range(new) \ Range(old) \subseteq Range(males_) \cup Range(females_)
            /\ \A p \in Range(new) \ Range(old) : is_in_breeding_place(p)
            /\ indiv' = indiv
            /\ \A i \in 1..Len(year_samples_') :
                  year_samples_'[i].year # year_ =>
                      year_samples_'[i] \in Range(year_samples_)
    ]_vars

\* the last phase that was executed
LastPhase == IF phases = <<>> THEN <<>> ELSE phases[Len(phases)]

\* in a state right after sample(): the cohort of one sex as it was before
BeforeSample(v, male) ==
    Range(v) \cup {p \in Range(ArchiveOf(year_samples_, year_)) :
                      indiv[p].is_male = male}

\* ... and whether every quota of that call was within its stratum
QuotasWithin(S) ==
    \A loc \in BreedingLocations :
        LET n == Cardinality({p \in S : indiv[p].location = loc /\ IsAdult(p)})
            j == Cardinality({p \in S : indiv[p].location = loc /\ IsJuvenile(p)})
        IN  /\ n_samples(sample_rate, n) <= n
            /\ n_juvenile_samples(n_samples(sample_rate, n)) <= j

\* C3 witness: sample() returned, every quota was within its stratum, two
\* adults of one stratum were split between archive and cohort
C3_Witness ==
    /\ pc = "migrate"
    /\ LastPhase = <<year_, "sample">>
    /\ QuotasWithin(BeforeSample(males_, TRUE))
    /\ QuotasWithin(BeforeSample(females_, FALSE))
    /\ \E p \in Range(females_), q \in Range(ArchiveOf(year_samples_, year_)) :
          /\ IsAdult(p) /\ IsAdult(q)
          /\ ~indiv[q].is_male
          /\ indiv[p].location = indiv[q].location
    /\ \E q \in Range(ArchiveOf(year_samples_, year_)) : IsJuvenile(q)

\* C4 for one cohort v (w after the call) and the archive entry after it
QuotaExact(v, w, arch) ==
    \A loc \in BreedingLocations :
        LET A == AdultsAt(v, loc)
            J == JuvenilesAt(v, loc)
            quota == n_samples(sample_rate, Cardinality(A))
        IN  /\ Cardinality(A \cap arch) = quota
            /\ A \ arch \subseteq Range(w)
            /\ Cardinality(J \cap arch) = Min(2 * quota, Cardinality(J))
            /\ J \ arch \subseteq Range(w)

\* C4 (as claimed): a sample(rate) call archives, per cohort and breeding
\* location, exactly round(rate * adults) adults and exactly
\* min(2 * adult quota, juveniles) juveniles; the rest stays in the cohort.
C4_Claimed ==
    [][pc = "sample" =>
        LET arch == Range(ArchiveOf(year_samples_', year_))
        IN  /\ QuotaExact(males_, males_', arch)
            /\ QuotaExact(females_, females_', arch)
    ]_vars

\* C5 for one cohort: a stratum smaller than its quota is archived whole
ClampedWhole(v, arch) ==
    \A loc \in BreedingLocations :
        LET A == AdultsAt(v, loc)
            J == JuvenilesAt(v, loc)
            quota == n_samples(sample_rate, Cardinality(A))
        IN  /\ quota > Cardinality(A) => A \subseteq arch
            /\ 2 * quota > Cardinality(J) => J \subseteq arch

\* C5 (as claimed): sample() always returns and the run goes on to migrate;
\* a stratum whose quota exceeds its size is archived whole.
C5_Claimed ==
    [][pc = "sample" =>
        /\ pc' = "migrate"
        /\ ClampedWhole(males_, Range(ArchiveOf(year_samples_', year_)))
        /\ ClampedWhole(females_, Range(ArchiveOf(year_samples_', year_)))
    ]_vars

\* identities created by the step (the arena only grows at its end)
Newborn == (Len(indiv) + 1)..Len(indiv')

\* the recruitment draw logged for mother m by the step (-1: no draw)
DrawOf(m) ==
    IF \E i \in 1..Len(draws') : draws'[i][1] = m
    THEN (CHOOSE e \in Range(draws') : e[1] = m)[2]
    ELSE -1

RECURSIVE SumDraws(_)
SumDraws(ds) == IF ds = <<>> THEN 0 ELSE Head(ds)[2] + SumDraws(Tail(ds))

HasCandidateFather(m) ==
    \E f \in Range(males_) : indiv[f].location = indiv[m].location

\* C6: in one reproduce() call a female outside the breeding places, or
\* without a live male at her location, or with recruitment draw 0 adds no
\* offspring; every other female adds exactly her recruitment draw; the
\* cohorts together grow by the sum of the draws, which are made exactly
\* for the breeding females that have a candidate father.
C6_OffspringCount ==
    [][pc = "reproduce" =>
        /\ \A m \in Range(females_) :
              LET kids == {k \in Newborn : indiv'[k].mother = m}
              IN  IF /\ is_in_breeding_place(m)
                     /\ HasCandidateFather(m)
                     /\ DrawOf(m) # 0
                  THEN Cardinality(kids) = DrawOf(m)
                  ELSE kids = {}
        /\ \A m \in Range(females_) :
              (DrawOf(m) >= 0) <=>
                  (is_in_breeding_place(m) /\ HasCandidateFather(m))
        /\ \A k \in Newborn : indiv'[k].mother \in Range(females_)
        /\ Len(males_') + Len(females_')
             = Len(males_) + Len(females_) + SumDraws(draws')
        /\ Cardinality(Range(males_') \cup Range(females_'))
             = Cardinality(Range(males_) \cup Range(females_)) + SumDraws(draws')
        /\ Cardinality(Newborn) = SumDraws(draws')
    ]_vars

\* C6 witness: reproduce() has just run with two females that had a
\* candidate father, one drew 0 and the other drew 2 and has two children
C6_Witness ==
    /\ pc = "survive0"
    /\ \E i, j \in 1..Len(draws) :
          /\ draws[i][2] = 0
          /\ draws[j][2] = 2
          /\ Cardinality({k \in 1..Len(indiv) :
                 indiv[k].mother = draws[j][1] /\ indiv[k].birth_year = year_}) = 2
          /\ \A k \in 1..Len(indiv) : indiv[k].mother # draws[i][1]

\* C7: every individual created by reproduce() has the current year as
\* birth year, its mother's location, a mother that is a live female in a
\* breeding place and a father that is a live male at the mother's
\* location; the offspring of one mother in one call share the father; a
\* newborn is put into the cohort of its own sex, so that afterwards males_
\* holds only males and females_ only females.
C7_Offspring ==
    [][pc = "reproduce" =>
        /\ \A k \in Newborn :
              LET c == indiv'[k]
              IN  /\ c.birth_year = year_
                  /\ c.mother \in Range(females_)
                  /\ c.father \in Range(males_)
                  /\ is_in_breeding_place(c.mother)
                  /\ c.location = indiv[c.mother].location
                  /\ indiv[c.father].location = indiv[c.mother].location
                  /\ indiv[c.father].is_male /\ ~indiv[c.mother].is_male
                  /\ c.is_male <=> k \in Range(males_')
                  /\ ~c.is_male <=> k \in Range(females_')
        /\ \A k1, k2 \in Newborn :
              indiv'[k1].mother = indiv'[k2].mother =>
                  indiv'[k1].father = indiv'[k2].father
        /\ \A p \in Range(males_') : indiv'[p].is_male
        /\ \A p \in Range(females_') : ~indiv'[p].is_male
        /\ \A p \in 1..Len(indiv) : indiv'[p] = indiv[p]
    ]_vars

\* C7 witness: a boy and a girl of one mother, born away from location 0
C7_Witness ==
    /\ pc = "survive0"
    /\ \E k1, k2 \in 1..Len(indiv) :
          /\ indiv[k1].birth_year = year_ /\ indiv[k2].birth_year = year_
          /\ indiv[k1].mother = indiv[k2].mother
          /\ indiv[k1].is_male /\ ~indiv[k2].is_male
          /\ indiv[k1].location = 1
          /\ k1 \in Range(males_) /\ k2 \in Range(females_)

\* C8: a survive(quarter) call leaves in each cohort exactly the members
\* whose survival check succeeded, in their previous order, adds nobody and
\* changes no individual; after survive(3) an individual that was in a
\* cohort before survive(0) is still in its cohort iff it failed none of the
\* year's checks.
C8_Survive ==
    [][(pc \in {"survive0", "survive1", "survive2", "survive3"}) =>
        /\ males_' = SelectSeq(males_, LAMBDA p : p \in checks')
        /\ females_' = SelectSeq(females_, LAMBDA p : p \in checks')
        /\ indiv' = indiv
        /\ year_samples_' = year_samples_
        /\ (pc = "survive3" =>
              (\A p \in before_s0' :
                    (p \in Range(males_') \cup Range(females_'))
                        <=> p \notin failed_any'))
        /\ (pc = "survive3" =>
              Range(males_') \cup Range(females_') \subseteq before_s0')
    ]_vars

\* C8 witness: after survive(3), of three females the middle one failed a
\* check and the other two passed every check of the year
C8_Witness ==
    /\ LastPhase = <<year_, "survive3">>
    /\ Len(females_) = 2
    /\ \E p \in failed_any : females_[1] < p /\ p < females_[2]
                             /\ ~indiv[p].is_male /\ indiv[p].birth_year = 0

\* everybody stored in the archive
Archived == {e[1] : e \in Range(Flatten(year_samples_))}

\* fathers and mothers of the members of S
ParentsOf(S) ==
    ({indiv[p].father : p \in S} \cup {indiv[p].mother : p \in S}) \ {0}

\* S with everybody reachable from it along father / mother references
RECURSIVE AncestorClosure(_)
AncestorClosure(S) ==
    IF ParentsOf(S) \subseteq S THEN S ELSE AncestorClosure(S \cup ParentsOf(S))

\* C9: the ancestor walk inserts every individual at most once, however many
\* samples share it and also when father and mother are one individual, and
\* the walk over all archived samples terminates.
C9_TraceOnce ==
    /\ [](\A i \in 1..Len(inserts) : inserts[i] <= 1)
    /\ (pc = "tracing") ~> (pc = "exported")

\* C9 witness: the walk is over; two archived samples with different
\* parents share a grandparent, which is father and mother of its children
C9_Witness ==
    /\ pc = "exported"
    /\ \E a, b \in Archived :
          /\ a # b
          /\ indiv[a].mother # 0 /\ indiv[b].mother # 0
          /\ indiv[a].mother # indiv[b].mother
          /\ indiv[indiv[a].mother].father # 0
          /\ indiv[indiv[a].mother].father = indiv[indiv[b].mother].father
          /\ indiv[indiv[a].mother].father = indiv[indiv[a].mother].mother
          /\ inserts[indiv[indiv[a].mother].father] = 1

\* the capture years under which individual p is stored
YearsOf(p) ==
    {year_samples_[i].year : i \in {j \in 1..Len(year_samples_) :
                                        p \in Range(year_samples_[j].samples)}}

\* C10: the family export has exactly one record per individual of the
\* ancestor closure of the archive and none else; a record has a capture
\* year iff its individual is archived, and then the year is the key under
\* which the individual is stored.
C10_FamilyExport ==
    pc = "exported" =>
        /\ {records[i].id : i \in 1..Len(records)} = AncestorClosure(Archived)
        /\ \A i, j \in 1..Len(records) :
              records[i].id = records[j].id => i = j
        /\ \A i \in 1..Len(records) :
              LET r == records[i]
              IN  /\ (r.capture_year # <<>>) <=> (r.id \in Archived)
                  /\ r.id \in Archived =>
                        /\ Len(r.capture_year) = 1
                        /\ YearsOf(r.id) = {r.capture_year[1]}
                  /\ r.father = indiv[r.id].father
                  /\ r.mother = indiv[r.id].mother
                  /\ r.birth_year = indiv[r.id].birth_year
                  /\ r.location = indiv[r.id].location

\* C10 witness: an export with records of two samples, of a parent that was
\* not sampled and of the root founder
C10_Witness ==
    /\ pc = "exported"
    /\ \E i, j, k, l \in 1..Len(records) :
          /\ i # j
          /\ records[i].capture_year # <<>>
          /\ records[j].capture_year # <<>>
          /\ records[k].capture_year = <<>>
          /\ records[k].id = records[i].father
          /\ records[l].father = 0
          /\ records[l].capture_year = <<>>

\* the members of the two live cohorts
Members == Range(males_) \cup Range(females_)

\* individuals that were removed from their cohort by survive()
Dead == {p \in 2..Len(indiv) : p \notin Members /\ p \notin Archived}

\* C11: no step changes the father, mother, birth year or sex of an existing
\* individual; a location changes only in the migrate step and only for a
\* member of a live cohort; an individual outside the cohorts never returns
\* to one, so a dead or archived individual keeps its location.
C11_IdentityFrame ==
    [][\A p \in 1..Len(indiv) :
          /\ indiv'[p].father = indiv[p].father
          /\ indiv'[p].mother = indiv[p].mother
          /\ indiv'[p].birth_year = indiv[p].birth_year
          /\ indiv'[p].is_male = indiv[p].is_male
          /\ (indiv'[p].location # indiv[p].location) =>
                (pc = "migrate" /\ p \in Members)
          /\ (p \notin Members) => (p \notin Range(males_') \cup Range(females_'))
    ]_vars

\* C11 witness: a migrate step has just moved a founder away from location 0
\* while an archived and a dead founder are still where they were removed
C11_Witness ==
    /\ LastPhase = <<year_ - 1, "migrate">>
    /\ \E p \in Members : indiv[p].birth_year = 0 /\ indiv[p].location # 0
    /\ \E a \in Archived : indiv[a].birth_year = 0 /\ indiv[a].location = 0
    /\ \E d \in Dead : indiv[d].birth_year = 0 /\ indiv[d].location = 0

\* C12: the migrate step leaves both cohorts as they were, element by
\* element, leaves the archive and the number of individuals as they were,
\* changes no field but location, changes no individual outside the cohorts
\* and puts every cohort member at a location below the number of locations.
C12_MigrateFrame ==
    [][(pc = "migrate") =>
        /\ males_' = males_
        /\ females_' = females_
        /\ year_samples_' = year_samples_
        /\ Len(indiv') = Len(indiv)
        /\ \A p \in 1..Len(indiv) :
              /\ [indiv'[p] EXCEPT !.location = indiv[p].location] = indiv[p]
              /\ (p \notin Members) => (indiv'[p] = indiv[p])
              /\ (p \in Members) => (indiv'[p].location \in Locations)
    ]_vars

\* C12 witness: migrate has just run on cohorts of three members, of which
\* a male and a female are now at different locations away from 0
C12_Witness ==
    /\ LastPhase = <<year_ - 1, "migrate">>
    /\ Len(males_) + Len(females_) = 3
    /\ \E m \in Range(males_), f \in Range(females_) :
          /\ indiv[m].location # 0 /\ indiv[f].location # 0
          /\ indiv[m].location # indiv[f].location

\* C18: every step keeps every archive entry, with its samples as a prefix
\* of the entry afterwards; the archive changes only in the sample step;
\* every key of the archive is a year whose sample step was executed.
C18_ArchiveGrows ==
    [][/\ \A i \in 1..Len(year_samples_) :
             \E j \in 1..Len(year_samples_') :
                 /\ year_samples_'[j].year = year_samples_[i].year
                 /\ IsPrefix(year_samples_[i].samples, year_samples_'[j].samples)
       /\ (year_samples_' # year_samples_) => (pc = "sample")
       /\ \A j \in 1..Len(year_samples_') :
             \E k \in 1..Len(phases') :
                 phases'[k] = <<year_samples_'[j].year, "sample">>
    ]_vars

\* C18 witness: a finished run with two capture years; the earlier entry
\* holds a sample and the later sample step has run after it
C18_Witness ==
    /\ pc = "done"
    /\ Len(year_samples_) = 2
    /\ year_samples_[1].samples # <<>>
    /\ year_samples_[1].year < year_samples_[2].year

\* everybody reachable from p along father / mother references
Ancestors(p) == AncestorClosure(ParentsOf({p}))

\* the individuals created by reproduce(): all but the root and the founders
Reproduced == (2 + initial_size)..Len(indiv)

\* C20: no individual is among its own ancestors, and every individual
\* created by reproduce() has a father and a mother whose birth years are
\* strictly below its own.
C20_Acyclic ==
    /\ \A p \in 1..Len(indiv) : p \notin Ancestors(p)
    /\ \A p \in Reproduced :
          /\ indiv[p].father # 0 /\ indiv[p].mother # 0
          /\ indiv[indiv[p].father].birth_year < indiv[p].birth_year
          /\ indiv[indiv[p].mother].birth_year < indiv[p].birth_year

\* C20 witness: an individual created by reproduce() whose mother was
\* created by reproduce() in an earlier year
C20_Witness ==
    \E p \in Reproduced :
        /\ indiv[p].mother \in Reproduced
        /\ indiv[indiv[p].mother].birth_year = FirstYear
        /\ indiv[p].birth_year = FirstYear + 1

RECURSIVE SumSeq(_)
SumSeq(row) == IF row = <<>> THEN 0 ELSE Head(row) + SumSeq(Tail(row))

\* a document that meets the load-time conditions of the specification
ValidDocument(d) ==
    /\ \A i \in 1..Len(d.natural_mortality) : d.natural_mortality[i] >= 0
    /\ \A i \in 1..Len(d.fishing_mortality) : d.fishing_mortality[i] >= 0
    /\ Len(d.natural_mortality) = Len(d.fishing_mortality)
    /\ \A i \in 1..Len(d.migration_matrices) :
          LET matrix == d.migration_matrices[i]
          IN  /\ Len(matrix) = NumLocations
              /\ \A r \in 1..Len(matrix) :
                    /\ Len(matrix[r]) = NumLocations
                    /\ SumSeq(matrix[r]) = RowTotal

\* the survival entry for age-quarter q under the clamping policy: the
\* tabulated value, the last tabulated one beyond the table
ClampedRate(q) ==
    LET i == Min(q + 1, Len(NATURAL_MORTALITY_))
    IN  NATURAL_MORTALITY_[i] + FISHING_MORTALITY_[i]

\* C13 (as claimed): with a valid Parameter Set, every survival check of an
\* individual whose birth year is not after the current year has a
\* non-negative age-quarter index, returns without an error and uses the
\* tabulated survival probability, the last tabulated one when the index is
\* beyond the table, at every age.
C13_Claimed ==
    (call.op = "has_survived" /\ ValidDocument(doc)) =>
        /\ call.qage >= 0
        /\ call.returned
        /\ call.rate = ClampedRate(call.qage)

\* the migration row for (age, from) under the clamping policy
ClampedRow(age, from) ==
    MIGRATION_MATRICES_[Min(age + 1, Len(MIGRATION_MATRICES_))][from + 1]

\* C14 (as claimed): with a valid Parameter Set, Individual migrate returns
\* at every age, draws the destination from the row of the matrix of that
\* age, of the last tabulated matrix beyond the tabulated ages, and leaves
\* the individual at a location below the number of locations.
C14_Claimed ==
    (call.op = "migrate" /\ ValidDocument(doc)) =>
        /\ call.returned
        /\ call.to \in Locations
        /\ call.to \in discrete_distribution(
                           ClampedRow(call.year - indiv[Subject].birth_year,
                                      call.from))
        /\ indiv[Subject].location = call.to

\* C16 (as claimed): a document with a negative mortality, a migration row
\* that does not sum to 1, a matrix of another dimension than the number of
\* locations or mortality sequences of different lengths is never
\* installed, and no member of Individual is ever called on it.
C16_Claimed ==
    ~ValidDocument(doc) =>
        /\ param_pc \in {"unset", "crashed"}
        /\ NATURAL_MORTALITY_ = <<>>
        /\ FISHING_MORTALITY_ = <<>>
        /\ WEIGHT_FOR_AGE_ = <<>>
        /\ MIGRATION_MATRICES_ = <<>>
        /\ call = NoCall

C19_Claimed ==
    call.op = "recruitment" =>
        /\ (~call.k.inf /\ call.k.v >= 0) =>
              /\ call.dist = "negative_binomial"
              /\ call.prob = [kind |-> "num", num |-> call.k.v,
                              den |-> call.mean + call.k.v]
        /\ (call.k.inf \/ call.k.v < 0) => call.dist = "poisson"
        /\ call.mean >= 0 => call.returned

\* C15 (as claimed): of two Populations constructed with the same initial
\* size and run with the same arguments and the same Parameter Set, the
\* second ends with the same sample archive (capture years, individuals,
\* their parents, birth years and locations, in the same order) and the same
\* cohort sizes as the first.
C15_Claimed ==
    (run_no = 2 /\ pc = "done") =>
        /\ Described(year_samples_) = first[1].archive
        /\ Len(males_) = first[1].males
        /\ Len(females_) = first[1].females

\* the engine is deterministic: two runs whose engines were constructed
\* with the same state end alike
SameEngineSameOutcome ==
    (run_no = 2 /\ pc = "done" /\ engine_ = first[1].engine) =>
        Outcome = first[1]

\* the members of a cohort afterwards that were not in it before the step
Appended(v, w) == SubSeq(w, Len(v) + 1, Len(w))

\* the females reproduce() draws a recruitment for, in iteration order
MothersDrawn == [i \in 1..Len(draws') |-> draws'[i][1]]

\* the females of the cohort as it is when reproduce() starts that are in a
\* breeding place and have a male of the starting cohort at their location
EligibleMothers ==
    SelectSeq(females_, LAMBDA m :
        is_in_breeding_place(m) /\ males_located(indiv[m].location) # <<>>)

\* C21: individuals born in a reproduce() call take no part in that call:
\* the mothers iterated are exactly the eligible females of the cohort as
\* it was when the call started, every father and mother of a newborn was
\* a cohort member at the start and was born in an earlier year, and the
\* cohorts afterwards are the cohorts before followed by the newborns.
C21_NewbornsWait ==
    [][(pc = "reproduce") =>
        /\ MothersDrawn = EligibleMothers
        /\ \A k \in Newborn :
              /\ indiv'[k].father \in Range(males_) \ Newborn
              /\ indiv'[k].mother \in Range(females_) \ Newborn
              /\ indiv[indiv'[k].father].birth_year < year_
              /\ indiv[indiv'[k].mother].birth_year < year_
        /\ IsPrefix(males_, males_')
        /\ IsPrefix(females_, females_')
        /\ Range(Appended(males_, males_'))
             \cup Range(Appended(females_, females_')) = Newborn
        /\ Members \cap Newborn = {}
    ]_vars

\* C21 witness: reproduce() has just run with two mothers at one location;
\* the first had a boy, the second, iterated after him, had a child too, and
\* both children are at the end of their cohorts
C21_Witness ==
    /\ pc = "survive0"
    /\ Len(draws) = 2
    /\ draws[1][2] = 1 /\ draws[2][2] = 1
    /\ \E b, c \in 1..Len(indiv) :
          /\ indiv[b].birth_year = year_ /\ indiv[c].birth_year = year_
          /\ indiv[b].mother = draws[1][1] /\ indiv[c].mother = draws[2][1]
          /\ indiv[b].is_male
          /\ indiv[b].location = indiv[c].location
          /\ indiv[c].father # b
          /\ males_[Len(males_)] = b
          /\ c \in Members

\* the archived individuals in iteration order of year_samples_
ArchivedSeq == [i \in 1..Len(Flatten(year_samples_)) |->
                  Flatten(year_samples_)[i][1]]

\* every individual the population holds, cohort members and samples alike
Held == males_ \o females_ \o ArchivedSeq

\* no element occurs at two positions of the sequence
NoDuplicates(s) == \A i, j \in 1..Len(s) : (s[i] = s[j]) => (i = j)

\* C22: in every reachable state each individual occurs at most once across
\* the male cohort, the female cohort and all archive entries together: none
\* is in both cohorts, none twice in a cohort, none both live and archived,
\* none archived twice or under two capture years; each archive key occurs
\* once.
C22_HeldOnce ==
    /\ NoDuplicates(Held)
    /\ Range(males_) \cap Range(females_) = {}
    /\ Members \cap Archived = {}
    /\ \A i, j \in 1..Len(year_samples_) :
          (i # j) =>
             /\ year_samples_[i].year # year_samples_[j].year
             /\ Range(year_samples_[i].samples)
                  \cap Range(year_samples_[j].samples) = {}
    /\ Range(Held) \subseteq 2..Len(indiv)

\* C22 witness: a finished run with samples under two capture years, among
\* them an individual created by reproduce(), and members left in both
\* cohorts
C22_Witness ==
    /\ pc = "done"
    /\ Len(year_samples_) = 2
    /\ year_samples_[1].samples # <<>>
    /\ year_samples_[2].samples # <<>>
    /\ Archived \cap Reproduced # {}
    /\ males_ # <<>> /\ females_ # <<>>

====
